---- MODULE Spec2Model ----
(***************************************************************************)
(* Hex connection game (coast-to-coast): the board of src/src/board.rs and *)
(* the turn/state machine of src/src/game.rs.                              *)
(*                                                                         *)
(* Spec      : a Game built by Game::new, driven by handle_click and       *)
(*             handle_pie_rule_decision with arbitrary arguments.          *)
(* SpecBoard : a Board built by Board::new(n), filled through place_piece, *)
(*             on which Board::check_win is evaluated.                     *)
(* SpecCells : a Board built by Board::new(n), written through set_cell    *)
(*             and place_piece with arbitrary coordinates.                 *)
(* SpecFill  : a small Board built by Board::new(n), filled through        *)
(*             place_piece up to its last cell.                            *)
(* SpecBlock : a Game played to the last cell of its board by two players  *)
(*             who first take the line the opponent has to reach; its runs *)
(*             are runs of Spec on a board of size BlockSize.              *)
(***************************************************************************)
EXTENDS Integers, Sequences, FiniteSets, TLC

\* ------------------------------------------------------------------ bounds
\* Size handed to Board::new by Game::new. The program uses
\* DEFAULT_BOARD_SIZE = 11 (game.rs:5); the model plays on a smaller board.
BoardSize == 2
\* Accepted moves explored per game.
MaxTurns == 2
\* Largest size handed to Board::new in SpecBoard (sizes 0..MaxSize).
MaxSize == 1
\* Pieces placed on a board in SpecBoard.
MaxStones == 3
\* Cells written or added to a board in SpecCells.
MaxWrites == 2
\* Largest size for which Board::new is compared with the region (0..MaxRegion).
MaxRegion == 3
\* Boards of at most MaxCells cells are filled completely in SpecFill.
MaxCells == 7
\* Size of the board on which SpecBlock plays a game to its last cell.
BlockSize == 3

\* ------------------------------------------------------------------- state
VARIABLES
    cells,              \* Board.cells : HashMap<Hex, CellState>, a function on its keys
    size,               \* Board.size
    current_player,     \* Game.current_player
    state,              \* Game.state
    turn_count,         \* Game.turn_count
    first_player_move,  \* Game.first_player_move : <<>> is None, <<h>> is Some(h)
    last_call           \* history: the most recent call, the state it arrived in
                        \* and the kind of cell it named

game_vars == <<cells, size, current_player, state, turn_count, first_player_move>>
vars == <<cells, size, current_player, state, turn_count, first_player_move, last_call>>

\* --------------------------------------------------------------- board.rs
CellState == {"Empty", "Red", "Blue"}

Hex(q, r) == [q |-> q, r |-> r]

\* Mutant of get_neighbors: the third offset is (+1, +1) instead of (-1, +1).
get_neighbors_mirrored(h) ==
    << Hex(h.q + 1, h.r),
       Hex(h.q,     h.r + 1),
       Hex(h.q + 1, h.r + 1),
       Hex(h.q - 1, h.r),
       Hex(h.q,     h.r - 1),
       Hex(h.q + 1, h.r - 1) >>

\* Hex::get_neighbors, in the order of the vec! literal.
get_neighbors(h) ==
    << Hex(h.q + 1, h.r),
       Hex(h.q,     h.r + 1),
       Hex(h.q - 1, h.r + 1),
       Hex(h.q - 1, h.r),
       Hex(h.q,     h.r - 1),
       Hex(h.q + 1, h.r - 1) >>

Max(a, b) == IF a >= b THEN a ELSE b
Min(a, b) == IF a <= b THEN a ELSE b

\* Mutant of NewKeys: the inner loop runs over -n..n for every q.
NewKeys_square(n) ==
    UNION { { Hex(q, r) : r \in (-n)..n } : q \in (-n)..n }

\* Keys inserted by the two loops of Board::new.
NewKeys(n) ==
    UNION { { Hex(q, r) : r \in Max(-n, -q - n)..Min(n, -q + n) } : q \in (-n)..n }

\* Board::new(size).cells
Board_new(n) == [h \in NewKeys(n) |-> "Empty"]

\* Board::get_cell : <<>> is None, <<s>> is Some(s)
get_cell(c, h) == IF h \in DOMAIN c THEN <<c[h]>> ELSE <<>>

\* Board::set_cell : HashMap::insert, the key is added when it is absent.
set_cell(c, h, s) ==
    IF h \in DOMAIN c THEN [c EXCEPT ![h] = s]
                      ELSE [k \in (DOMAIN c) \cup {h} |-> IF k = h THEN s ELSE c[k]]

\* Board::is_valid_move
is_valid_move(c, h) == IF h \in DOMAIN c THEN c[h] = "Empty" ELSE FALSE

\* Mutant of place_piece_result: an occupied cell is accepted as well.
place_piece_result_any_cell(c, h) ==
    IF h \in DOMAIN c THEN "Ok" ELSE "Hex is out of bounds"

\* Board::place_piece : the Result it returns
place_piece_result(c, h) ==
    IF h \in DOMAIN c
    THEN IF c[h] = "Empty" THEN "Ok" ELSE "Cell is not empty"
    ELSE "Hex is out of bounds"

\* Mutant of place_piece_cells: the cell is written without the match.
place_piece_cells_unchecked(c, h, s) == set_cell(c, h, s)

\* Board::place_piece : the cells it leaves
place_piece_cells(c, h, s) ==
    IF place_piece_result(c, h) = "Ok" THEN set_cell(c, h, s) ELSE c

\* The elements of a sequence.
Range(seq) == { seq[i] : i \in 1..Len(seq) }

\* The order in which the for loops take the six neighbours: as returned.
CodeOrder == <<1, 2, 3, 4, 5, 6>>

\* The neighbours nbrs taken in the order order (a permutation of 1..6).
Reorder(nbrs, order) == [i \in 1..Len(order) |-> nbrs[order[i]]]

\* Order in which a HashMap iteration yields the keys of S (unspecified by
\* the library; one order per set here).
RECURSIVE IterOrder(_)
IterOrder(S) ==
    IF S = {} THEN <<>>
    ELSE LET h == CHOOSE x \in S : \A y \in S : x.q < y.q \/ (x.q = y.q /\ x.r <= y.r)
         IN  <<h>> \o IterOrder(S \ {h})

\* Board::check_win, start_condition (board.rs:79-83)
board_start_condition(n, player, h) ==
    IF player = "Red" THEN h.q = -n ELSE h.r = -n

\* Mutant of board_win_condition: the search stops one column (row) early.
board_win_condition_short(n, player, h) ==
    IF player = "Red" THEN h.q = n - 1 ELSE h.r = n - 1

\* Mutant of board_win_condition: Red's far side is used for Blue as well.
board_win_condition_one_axis(n, player, h) == h.q = n

\* Board::check_win, win_condition (board.rs:86-90)
board_win_condition(n, player, h) ==
    IF player = "Red" THEN h.q = n ELSE h.r = n

\* Mutant of board_explore: a neighbour is pushed whoever owns it.
RECURSIVE board_explore_any_owner(_, _, _, _, _, _)
board_explore_any_owner(c, player, nbrs, i, queue, visited) ==
    IF i > Len(nbrs) THEN [queue |-> queue, visited |-> visited]
    ELSE LET neighbor_hex == nbrs[i]
             got == get_cell(c, neighbor_hex)
         IN  IF got # <<>> /\ neighbor_hex \notin visited
             THEN board_explore_any_owner(c, player, nbrs, i + 1,
                                Append(queue, neighbor_hex), visited \cup {neighbor_hex})
             ELSE board_explore_any_owner(c, player, nbrs, i + 1, queue, visited)

\* Board::check_win, the "Explore neighbors" loop (board.rs:111-118):
\* the neighbours nbrs[i..] of the current cell are pushed when owned by
\* player and not yet visited.
RECURSIVE board_explore(_, _, _, _, _, _)
board_explore(c, player, nbrs, i, queue, visited) ==
    IF i > Len(nbrs) THEN [queue |-> queue, visited |-> visited]
    ELSE LET neighbor_hex == nbrs[i]
             got == get_cell(c, neighbor_hex)
         IN  IF got # <<>> /\ got[1] = player /\ neighbor_hex \notin visited
             THEN board_explore(c, player, nbrs, i + 1,
                                Append(queue, neighbor_hex), visited \cup {neighbor_hex})
             ELSE board_explore(c, player, nbrs, i + 1, queue, visited)

\* Board::check_win, the while loop (board.rs:100-120); head is 0-based.
\* The Vec is never shortened, so at the return it lists every cell that
\* was pushed and head counts the cells taken from it.
RECURSIVE board_search(_, _, _, _, _, _, _)
board_search(c, n, player, queue, head, visited, order) ==
    IF ~(head < Len(queue)) THEN [found |-> FALSE, queue |-> queue, head |-> head]
    ELSE LET current_hex == queue[head + 1]
         IN  IF board_win_condition(n, player, current_hex)
             THEN [found |-> TRUE, queue |-> queue, head |-> head + 1]
             ELSE LET e == board_explore(c, player,
                                         Reorder(get_neighbors(current_hex), order), 1,
                                         queue, visited)
                  IN  board_search(c, n, player, e.queue, head + 1, e.visited, order)

\* Board::check_win, the cells the seeding loop pushes (board.rs:93-98)
board_seeds(c, n, player_color) ==
    { h \in DOMAIN c : c[h] = player_color /\ board_start_condition(n, player_color, h) }

\* Board::check_win from the seeding on (board.rs:92-120), when the HashMap
\* yields the start cells as the sequence seeds and the neighbours are
\* taken in the order order: the value returned, the queue and head at the
\* return.
board_run_in(c, n, player_color, seeds, order) ==
    board_search(c, n, player_color, seeds, 0, Range(seeds), order)

\* Board::check_win from the seeding on, in the model's iteration order.
board_run(c, n, player_color) ==
    board_run_in(c, n, player_color, IterOrder(board_seeds(c, n, player_color)), CodeOrder)

\* Board::check_win
check_win(c, n, player_color) ==
    IF player_color \notin {"Red", "Blue"} THEN FALSE
    ELSE board_run(c, n, player_color).found

\* ---------------------------------------------------------------- game.rs
InProgress == [tag |-> "InProgress"]
WaitingForPieRuleChoice == [tag |-> "WaitingForPieRuleChoice"]
Finished(w) == [tag |-> "Finished", winner |-> w]

\* Mutant of other_player: the same player is returned.
other_player_same(p) == p

\* Mutant of other_player: both arms of the match yield Red.
other_player_red(p) ==
    CASE p = "Red"  -> "Red"
      [] p = "Blue" -> "Red"
      [] OTHER      -> p

\* The match that switches current_player (game.rs:47-51 and 59-63).
other_player(p) ==
    CASE p = "Red"  -> "Blue"
      [] p = "Blue" -> "Red"
      [] OTHER      -> p

\* Game::check_win_condition, start_condition (game.rs:96, 100)
game_start_condition(n, player, h) ==
    IF player = "Red" THEN h.q = 0 ELSE h.r = 0

\* Mutant of game_end_condition: the far side is taken one line too near.
game_end_condition_near(n, player, h) ==
    IF player = "Red" THEN h.q = n - 2 ELSE h.r = n - 2

\* Game::check_win_condition, end_condition (game.rs:97, 101)
game_end_condition(n, player, h) ==
    IF player = "Red" THEN h.q = n - 1 ELSE h.r = n - 1

\* Mutant of game_explore: the loop is left after the first neighbour.
RECURSIVE game_explore_first_only(_, _, _, _, _, _)
game_explore_first_only(c, player, nbrs, i, queue, visited) ==
    IF i > 1 THEN [queue |-> queue, visited |-> visited]
    ELSE LET neighbor == nbrs[i]
         IN  IF neighbor \notin visited
                /\ neighbor \in DOMAIN c
                /\ c[neighbor] = player
             THEN game_explore_first_only(c, player, nbrs, i + 1,
                               Append(queue, neighbor), visited \cup {neighbor})
             ELSE game_explore_first_only(c, player, nbrs, i + 1, queue, visited)

\* Game::check_win_condition, the neighbour loop (game.rs:118-127)
RECURSIVE game_explore(_, _, _, _, _, _)
game_explore(c, player, nbrs, i, queue, visited) ==
    IF i > Len(nbrs) THEN [queue |-> queue, visited |-> visited]
    ELSE LET neighbor == nbrs[i]
         IN  IF neighbor \notin visited
                /\ neighbor \in DOMAIN c
                /\ c[neighbor] = player
             THEN game_explore(c, player, nbrs, i + 1,
                               Append(queue, neighbor), visited \cup {neighbor})
             ELSE game_explore(c, player, nbrs, i + 1, queue, visited)

\* Game::check_win_condition, the pop_front loop (game.rs:113-130). The
\* VecDeque forgets what is popped: pushed lists every cell ever put on it
\* and pops counts the pop_front calls that returned a cell.
RECURSIVE game_search(_, _, _, _, _, _, _, _)
game_search(c, n, player, queue, visited, pushed, pops, order) ==
    IF queue = <<>> THEN [found |-> FALSE, pushed |-> pushed, pops |-> pops]
    ELSE LET hex == Head(queue)
         IN  IF game_end_condition(n, player, hex)
             THEN [found |-> TRUE, pushed |-> pushed, pops |-> pops + 1]
             ELSE LET e == game_explore(c, player, Reorder(get_neighbors(hex), order), 1,
                                        Tail(queue), visited)
                  IN  game_search(c, n, player, e.queue, e.visited,
                                  pushed \o SubSeq(e.queue, Len(queue), Len(e.queue)),
                                  pops + 1, order)

\* Game::check_win_condition, the cells the seeding loop pushes (game.rs:106-111)
game_seeds(c, n, player) ==
    { h \in DOMAIN c : c[h] = player /\ game_start_condition(n, player, h) }

\* Game::check_win_condition from the seeding on (game.rs:106-130), when the
\* HashMap yields the start cells as the sequence seeds and the neighbours
\* are taken in the order order.
game_run_in(c, n, player, seeds, order) ==
    game_search(c, n, player, seeds, Range(seeds), seeds, 0, order)

\* Game::check_win_condition from the seeding on, in the model's iteration order.
game_run(c, n, player) ==
    game_run_in(c, n, player, IterOrder(game_seeds(c, n, player)), CodeOrder)

\* Game::check_win_condition on board (c, n) for self.current_player = player
check_win_condition(c, n, player) ==
    IF player \notin {"Red", "Blue"} THEN FALSE
    ELSE game_run(c, n, player).found

\* Game::new
Init ==
    /\ cells = Board_new(BoardSize)
    /\ size = BoardSize
    /\ current_player = "Red"
    /\ state = InProgress
    /\ turn_count = 0
    /\ first_player_move = <<>>
    /\ last_call = [op |-> "new", at |-> "none", target |-> "none"]

\* Mutant of click_allowed: only a pending pie-rule choice blocks a click.
click_allowed_unless_waiting(st) == st # WaitingForPieRuleChoice

\* handle_click's guard (game.rs:35): the click is looked at only in InProgress.
click_allowed(st) == st = InProgress

\* Mutant of click_target_empty: any cell of the board can be taken.
click_target_any(c, hex) == hex \in DOMAIN c

\* handle_click's test of the clicked cell (game.rs:39-40): a key, and Empty.
click_target_empty(c, hex) ==
    IF hex \in DOMAIN c THEN c[hex] = "Empty" ELSE FALSE

\* Mutant of next_turn_count: the counter is advanced twice.
next_turn_count_twice(tc) == tc + 2

\* Mutant of next_turn_count: the increment is left out.
next_turn_count_kept(tc) == tc

\* self.turn_count += 1 (game.rs:42)
next_turn_count(tc) == tc + 1

\* Mutant of is_first_move: the test is made against the count before the move.
is_first_move_stale(tc) == tc = 0

\* Mutant of is_first_move: every move asks for the pie-rule choice.
is_first_move_every(tc) == tc >= 1

\* Mutant of is_first_move: the second move counts as a first move too.
is_first_move_twice(tc) == tc <= 2

\* "After the very first move" (game.rs:44), tested after the increment.
is_first_move(tc) == tc = 1

\* Mutant of declare_winner: the player who did not move is recorded.
declare_winner_opponent(player) == Finished(other_player(player))

\* GameState::Finished { winner: self.current_player } (game.rs:57)
declare_winner(player) == Finished(player)

\* What a call names, seen from the board it arrives at (history only).
Target(c, hex) ==
    IF hex \notin DOMAIN c THEN "out_of_bounds"
    ELSE IF c[hex] = "Empty" THEN "empty" ELSE "occupied"

\* Game::handle_click(hex)
handle_click(hex) ==
    /\ last_call' = [op |-> "handle_click", at |-> state.tag, target |-> Target(cells, hex)]
    /\ IF ~click_allowed(state)
       THEN UNCHANGED game_vars
       ELSE IF click_target_empty(cells, hex)
       THEN LET placed == set_cell(cells, hex, current_player)
                tc     == next_turn_count(turn_count)
            IN  /\ cells' = placed
                /\ size' = size
                /\ turn_count' = tc
                /\ IF is_first_move(tc)
                   THEN /\ first_player_move' = <<hex>>
                        /\ current_player' = other_player(current_player)
                        /\ state' = WaitingForPieRuleChoice
                   ELSE /\ first_player_move' = first_player_move
                        /\ IF check_win_condition(placed, size, current_player)
                           THEN /\ state' = declare_winner(current_player)
                                /\ current_player' = current_player
                           ELSE /\ state' = state
                                /\ current_player' = other_player(current_player)
       ELSE UNCHANGED game_vars

\* Mutant of decision_allowed: the decision is taken in any open game.
decision_allowed_unfinished(st) == st.tag # "Finished"

\* handle_pie_rule_decision's guard (game.rs:70)
decision_allowed(st) == st = WaitingForPieRuleChoice

\* Mutant of pie_rule_cells: the first move is given to the other colour.
pie_rule_cells_other_colour(c, first_move, player, apply_pie_rule) ==
    IF apply_pie_rule
    THEN IF first_move # <<>> THEN set_cell(c, first_move[1], other_player(player)) ELSE c
    ELSE c

\* Mutant of pie_rule_cells: the flag is not looked at.
pie_rule_cells_always(c, first_move, player, apply_pie_rule) ==
    IF first_move # <<>> THEN set_cell(c, first_move[1], player) ELSE c

\* Mutant of pie_rule_cells: on "apply" the first move is taken back.
pie_rule_cells_taken_back(c, first_move, player, apply_pie_rule) ==
    IF apply_pie_rule
    THEN IF first_move # <<>> THEN set_cell(c, first_move[1], "Empty") ELSE c
    ELSE c

\* The board after the decision (game.rs:74-85): on "apply" the remembered
\* first move is given to the deciding player, otherwise nothing is written.
pie_rule_cells(c, first_move, player, apply_pie_rule) ==
    IF apply_pie_rule
    THEN IF first_move # <<>> THEN set_cell(c, first_move[1], player) ELSE c
    ELSE c

\* Mutant of handle_pie_rule_decision: the decision is counted as a turn.
handle_pie_rule_decision_counting(apply_pie_rule) ==
    /\ last_call' = [op |-> "handle_pie_rule_decision", at |-> state.tag, target |-> "none"]
    /\ IF ~decision_allowed(state)
       THEN UNCHANGED game_vars
       ELSE /\ cells' = pie_rule_cells(cells, first_player_move, current_player,
                                       apply_pie_rule)
            /\ state' = InProgress
            /\ turn_count' = turn_count + 1
            /\ UNCHANGED <<size, current_player, first_player_move>>

\* Game::handle_pie_rule_decision(apply_pie_rule)
handle_pie_rule_decision(apply_pie_rule) ==
    /\ last_call' = [op |-> "handle_pie_rule_decision", at |-> state.tag, target |-> "none"]
    /\ IF ~decision_allowed(state)
       THEN UNCHANGED game_vars
       ELSE /\ cells' = pie_rule_cells(cells, first_player_move, current_player,
                                       apply_pie_rule)
            /\ state' = InProgress
            /\ UNCHANGED <<size, current_player, turn_count, first_player_move>>

\* Coordinates a caller may submit: the square -n..n x -n..n, which holds
\* the board and the corners cut off by |q + r| <= n, and one far hex.
ClickHexes == { Hex(q, r) : q \in (-BoardSize)..BoardSize, r \in (-BoardSize)..BoardSize }
              \cup { Hex(BoardSize + 1, 0) }

\* A game is explored until MaxTurns moves have been played; a game that
\* has ended, or waits for the pie-rule choice, stays open to calls.
Explored == state = InProgress => turn_count < MaxTurns

Click == \E hex \in ClickHexes : Explored /\ handle_click(hex)

Decide == \E apply_pie_rule \in BOOLEAN : Explored /\ handle_pie_rule_decision(apply_pie_rule)

Next == Click \/ Decide

Spec == Init /\ [][Next]_vars

\* ------------------------------------------- a Game played to the end
\* Game::new on a board of size BlockSize.
InitBlock ==
    /\ cells = Board_new(BlockSize)
    /\ size = BlockSize
    /\ current_player = "Red"
    /\ state = InProgress
    /\ turn_count = 0
    /\ first_player_move = <<>>
    /\ last_call = [op |-> "new", at |-> "none", target |-> "none"]

\* The cells of the line the opponent of player has to reach
\* (end_condition of the opponent, game.rs:97, 101).
OpponentLine(c, n, player) ==
    { h \in DOMAIN c : game_end_condition(n, other_player(player), h) }

\* The cells a blocking player clicks: any Empty cell of the opponent's
\* line; once that line is taken, the first Empty cell of the board.
BlockingClicks(c, n, player) ==
    LET empty == { h \in DOMAIN c : c[h] = "Empty" }
        line  == OpponentLine(c, n, player) \cap empty
    IN  IF line # {} THEN line
        ELSE IF empty # {} THEN { IterOrder(empty)[1] }
        ELSE {}

ClickBlock == \E hex \in BlockingClicks(cells, size, current_player) : handle_click(hex)

DecideBlock == \E apply_pie_rule \in BOOLEAN : handle_pie_rule_decision(apply_pie_rule)

NextBlock == ClickBlock \/ DecideBlock

SpecBlock == InitBlock /\ [][NextBlock]_vars

\* ------------------------------------------------- a Board on its own
\* Board::new(n) for a size 0..MaxSize; no Game acts in SpecBoard, its
\* fields stay as Game::new leaves them.
InitBoard ==
    /\ size \in 0..MaxSize
    /\ cells = Board_new(size)
    /\ current_player = "Red"
    /\ state = InProgress
    /\ turn_count = 0
    /\ first_player_move = <<>>
    /\ last_call = [op |-> "new", at |-> "none", target |-> "none"]

\* Coordinates handed to the Board's methods.
BoardHexes == { Hex(q, r) : q \in (-MaxSize)..MaxSize, r \in (-MaxSize)..MaxSize }
              \cup { Hex(MaxSize + 1, 0) }

Stones(c) == { h \in DOMAIN c : c[h] # "Empty" }

\* Board::place_piece(hex, piece) called on the board
place_piece(hex, piece) ==
    /\ cells' = place_piece_cells(cells, hex, piece)
    /\ UNCHANGED <<size, current_player, state, turn_count, first_player_move, last_call>>

\* A placement; one that adds a stone is explored up to MaxStones stones.
PlacePiece ==
    \E hex \in BoardHexes, piece \in CellState :
        /\ (is_valid_move(cells, hex) /\ piece # "Empty")
               => Cardinality(Stones(cells)) < MaxStones
        /\ place_piece(hex, piece)

NextBoard == PlacePiece

SpecBoard == InitBoard /\ [][NextBoard]_vars

\* ------------------------------------- a Board written cell by cell
\* Board::set_cell(hex, piece) called on the board; the call is recorded.
board_set_cell(hex, piece) ==
    /\ last_call' = [op |-> "set_cell", at |-> "none", target |-> Target(cells, hex)]
    /\ cells' = set_cell(cells, hex, piece)
    /\ UNCHANGED <<size, current_player, state, turn_count, first_player_move>>

\* Board::place_piece(hex, piece) called on the board; the call is recorded.
board_place_piece(hex, piece) ==
    /\ last_call' = [op |-> "place_piece", at |-> "none", target |-> Target(cells, hex)]
    /\ cells' = place_piece_cells(cells, hex, piece)
    /\ UNCHANGED <<size, current_player, state, turn_count, first_player_move>>

\* Cells that differ from the board Board::new(n) built: pieces and added keys.
Written(c, n) ==
    LET keys == NewKeys(n)
    IN  { h \in DOMAIN c : h \notin keys \/ c[h] # "Empty" }

\* A board is explored until MaxWrites of its cells are written or added.
ExploredCells == Cardinality(Written(cells, size)) < MaxWrites

SetCell ==
    /\ ExploredCells
    /\ \E hex \in BoardHexes, piece \in CellState : board_set_cell(hex, piece)

PlaceOnCells ==
    /\ ExploredCells
    /\ \E hex \in BoardHexes, piece \in CellState : board_place_piece(hex, piece)

NextCells == SetCell \/ PlaceOnCells

SpecCells == InitBoard /\ [][NextCells]_vars

\* ------------------------------------------- a small Board filled up
\* Board::new(n) for the sizes whose board has at most MaxCells cells.
InitFill ==
    /\ InitBoard
    /\ Cardinality(NewKeys(size)) <= MaxCells

\* A placement of any piece at any coordinate, on a board however full.
FillCell == \E hex \in BoardHexes, piece \in CellState : place_piece(hex, piece)

NextFill == FillCell

SpecFill == InitFill /\ [][NextFill]_vars

\* =================================================================
\* Properties
\* =================================================================
Players == {"Red", "Blue"}

\* The step is a call of handle_click.
IsClick == last_call'.op = "handle_click"

\* The step is a call of handle_click that names an Empty cell of the board
\* while the state is InProgress (an accepted click).
IsAcceptedClick == IsClick /\ state = InProgress /\ last_call'.target = "empty"

\* The step is a call of handle_pie_rule_decision.
IsDecision == last_call'.op = "handle_pie_rule_decision"

\* The last call was an accepted click.
WasAcceptedClick ==
    last_call = [op |-> "handle_click", at |-> "InProgress", target |-> "empty"]

\* C1: Finished is terminal: from a state Finished{winner}, every call of
\* handle_click or handle_pie_rule_decision leaves state (with its winner),
\* current_player, turn_count, first_player_move and every cell as they were.
C1_FinishedIsTerminal ==
    [][state.tag = "Finished" => UNCHANGED game_vars]_vars

\* C1 witness: a click on an Empty cell has arrived in a Finished game.
C1_Witness ==
    /\ state.tag = "Finished"
    /\ last_call = [op |-> "handle_click", at |-> "Finished", target |-> "empty"]

\* C1 witness for the other call: a decision has arrived in a Finished game.
C1_WitnessDecision ==
    /\ state.tag = "Finished"
    /\ last_call.op = "handle_pie_rule_decision"
    /\ last_call.at = "Finished"

\* C2: an accepted click that is not the first move of the game ends in
\* Finished{winner: mover} with current_player still the mover when the
\* Game's win check is true for the mover (the colour just placed), and
\* stays InProgress when it is false; the winner is never the opponent.
C2_WinGoesToMover ==
    [][(IsAcceptedClick /\ turn_count >= 1) =>
          \E hex \in DOMAIN cells :
              LET mover == cells'[hex]
              IN  /\ cells[hex] = "Empty"
                  /\ mover = current_player
                  /\ IF check_win_condition(cells', size, mover)
                     THEN state' = Finished(mover) /\ current_player' = mover
                     ELSE state' = InProgress
                  /\ state'.tag = "Finished" => state'.winner # other_player(mover)]_vars

\* C2 witness: a click has just won the game for the player who made it.
C2_Witness ==
    /\ WasAcceptedClick
    /\ state = Finished(current_player)

\* C2 witness for the other branch: a second move that did not win.
C2_WitnessNoWin ==
    /\ WasAcceptedClick
    /\ turn_count = 2
    /\ state = InProgress

\* Cells of c owned by player p.
Owned(c, p) == { h \in DOMAIN c : c[h] = p }

\* d is one of the six neighbours of h.
Adjacent(h, d) == \E i \in 1..6 : get_neighbors(h)[i] = d

\* The cells of O that a path of pairwise-adjacent cells of O joins to S.
RECURSIVE JoinedTo(_, _)
JoinedTo(S, O) ==
    LET T == S \cup { h \in O : \E s \in S : Adjacent(s, h) }
    IN  IF T = S THEN S ELSE JoinedTo(T, O)

\* Player p has a path of its own pairwise-adjacent cells from a cell on
\* line -n to a cell on line n (q for Red, r for Blue).
SidesJoined(c, n, p) ==
    LET O      == Owned(c, p)
        coord(h) == IF p = "Red" THEN h.q ELSE h.r
    IN  \E g \in JoinedTo({ h \in O : coord(h) = -n }, O) : coord(g) = n

\* C3: on every board built by Board::new(size), whatever its cells hold,
\* check_win(Red) is true iff Red cells join side q = -size to side q = size,
\* check_win(Blue) is true iff Blue cells join side r = -size to r = size,
\* and a player that owns no cell gets false.
C3_CheckWinIsConnectivity ==
    \A p \in Players :
        /\ check_win(cells, size, p) <=> SidesJoined(cells, size, p)
        /\ Owned(cells, p) = {} => ~check_win(cells, size, p)

\* C3 witness: on a board of size 1 Red has joined its two sides with a
\* chain of three pieces and check_win says so, while Blue gets false.
C3_Witness ==
    /\ size = 1
    /\ Cardinality(Owned(cells, "Red")) = 3
    /\ check_win(cells, size, "Red")
    /\ ~check_win(cells, size, "Blue")

\* C3 witness for a refusal: Red holds a cell on each of its sides, the two
\* are not joined, and check_win(Red) is false.
C3_WitnessNoPath ==
    /\ size = 1
    /\ \E a, b \in Owned(cells, "Red") : a.q = -1 /\ b.q = 1
    /\ ~check_win(cells, size, "Red")

\* The player whose colour the last click placed: the winner when the click
\* won, otherwise the player who is not to move.
Mover == IF state.tag = "Finished" THEN current_player
                                   ELSE other_player(current_player)

\* C4: the Game declares a winner exactly when that player joins its pair
\* of opposite sides of the board: after every accepted click but the first,
\* the game is Finished iff Board::check_win holds for the mover on that
\* board, and the winner is the mover.
C4_GameWinIsBoardWin ==
    (WasAcceptedClick /\ turn_count >= 2) =>
        /\ (state.tag = "Finished") <=> check_win(cells, size, Mover)
        /\ state.tag = "Finished" => state.winner = Mover

\* C5: a rejected move changes nothing: a click in InProgress on a hex that
\* is no key of the board, or on a Red or Blue cell, leaves every cell,
\* current_player, turn_count, state and first_player_move as they were.
C5_RejectedClickChangesNothing ==
    [][(IsClick /\ state = InProgress
               /\ last_call'.target \in {"occupied", "out_of_bounds"})
          => UNCHANGED game_vars]_vars

\* C5 witness: a click on an occupied cell has arrived in InProgress.
C5_Witness ==
    last_call = [op |-> "handle_click", at |-> "InProgress", target |-> "occupied"]

\* C5 witness for the other rejection: a hex that is no key of the board.
C5_WitnessOutOfBounds ==
    last_call = [op |-> "handle_click", at |-> "InProgress", target |-> "out_of_bounds"]

\* C6: the first accepted move of a game (turn_count becomes 1) leads to
\* WaitingForPieRuleChoice: the clicked cell is Red's, first_player_move is
\* that hex, current_player flips to Blue; the state is not Finished.
C6_FirstMoveAwaitsPieChoice ==
    [][(IsAcceptedClick /\ turn_count = 0) =>
          /\ turn_count' = 1
          /\ state' = WaitingForPieRuleChoice
          /\ state'.tag # "Finished"
          /\ \E hex \in DOMAIN cells :
                /\ cells' = [cells EXCEPT ![hex] = "Red"]
                /\ first_player_move' = <<hex>>
          /\ current_player = "Red"
          /\ current_player' = "Blue"]_vars

\* C6 witness: the first move has just been played.
C6_Witness ==
    /\ WasAcceptedClick
    /\ turn_count = 1
    /\ state = WaitingForPieRuleChoice

\* C7: in WaitingForPieRuleChoice, handle_pie_rule_decision(true) gives the
\* remembered first-move cell to current_player, leaves current_player and
\* every other cell as they were, and moves the state to InProgress.
C7_SwapGivesFirstMoveToDecider ==
    [][(state = WaitingForPieRuleChoice /\ handle_pie_rule_decision(TRUE)) =>
          /\ first_player_move # <<>>
          /\ DOMAIN cells' = DOMAIN cells
          /\ cells'[first_player_move[1]] = current_player
          /\ \A h \in DOMAIN cells : h # first_player_move[1] => cells'[h] = cells[h]
          /\ current_player' = current_player
          /\ state' = InProgress]_vars

\* C7 witness: the swap has been decided: play has resumed and the
\* first-move cell, played by Red, is Blue's.
C7_Witness ==
    /\ last_call = [op |-> "handle_pie_rule_decision",
                    at |-> "WaitingForPieRuleChoice", target |-> "none"]
    /\ state = InProgress
    /\ cells[first_player_move[1]] = "Blue"
    /\ current_player = "Blue"

\* C8: in WaitingForPieRuleChoice, handle_pie_rule_decision(false) changes
\* no cell, and neither current_player nor first_player_move; only the state
\* changes, to InProgress.
C8_KeepChangesOnlyState ==
    [][(state = WaitingForPieRuleChoice /\ handle_pie_rule_decision(FALSE)) =>
          /\ UNCHANGED <<cells, size, current_player, turn_count, first_player_move>>
          /\ state' = InProgress]_vars

\* C8 witness: "keep" has been decided: play has resumed and the first-move
\* cell is still Red's.
C8_Witness ==
    /\ last_call = [op |-> "handle_pie_rule_decision",
                    at |-> "WaitingForPieRuleChoice", target |-> "none"]
    /\ state = InProgress
    /\ cells[first_player_move[1]] = "Red"

\* The state predicate of C9.
WaitingMeansOneMove ==
    state = WaitingForPieRuleChoice =>
        /\ turn_count = 1
        /\ Len(first_player_move) = 1
        /\ Stones(cells) = { first_player_move[1] }

\* C9: while the state is WaitingForPieRuleChoice exactly one move has been
\* played (turn_count is 1, first_player_move is Some(h), h is the only
\* non-Empty cell), and a decision taken then returns the state to InProgress.
C9_WaitingIsAfterOneMove ==
    /\ []WaitingMeansOneMove
    /\ [][(IsDecision /\ state = WaitingForPieRuleChoice) => state' = InProgress]_vars

\* C9 witness: the game waits for the choice, and a click on an Empty cell
\* made meanwhile has not been played.
C9_Witness ==
    /\ state = WaitingForPieRuleChoice
    /\ last_call = [op |-> "handle_click", at |-> "WaitingForPieRuleChoice",
                    target |-> "empty"]

\* C10: every accepted click raises turn_count by exactly 1, be it the
\* first move, a winning move or an ordinary one; turn_count never decreases.
C10_AcceptedClickCountsOne ==
    [][/\ IsAcceptedClick => turn_count' = turn_count + 1
       /\ turn_count' >= turn_count]_vars

\* C10 witness: a second move has been counted, and it won the game.
C10_Witness ==
    /\ WasAcceptedClick
    /\ state.tag = "Finished"
    /\ turn_count = 2

\* C10 witness for an ordinary second move.
C10_WitnessOrdinary ==
    /\ WasAcceptedClick
    /\ state = InProgress
    /\ turn_count = 2

\* C11 as stated: every accepted balancing decision (a call of
\* handle_pie_rule_decision in state WaitingForPieRuleChoice) raises
\* turn_count by exactly 1.
C11_DecisionCountsOne ==
    [][(IsDecision /\ state = WaitingForPieRuleChoice) => turn_count' = turn_count + 1]_vars

\* C11 amended: an accepted balancing decision, swap or keep, leaves
\* turn_count as it was; only accepted clicks are counted.
C11_DecisionKeepsTurnCount ==
    [][(IsDecision /\ state = WaitingForPieRuleChoice) => turn_count' = turn_count]_vars

\* C11 witness: the decision has been taken and the counter still reads 1.
C11_Witness ==
    /\ last_call = [op |-> "handle_pie_rule_decision", at |-> "WaitingForPieRuleChoice",
                    target |-> "none"]
    /\ state = InProgress
    /\ turn_count = 1

\* The player who makes move number tc + 1: Red makes the odd moves.
PlayerOfMove(tc) == IF tc % 2 = 0 THEN "Red" ELSE "Blue"

\* While a move is awaited, current_player is the player whose move it is.
NextMoverIsCurrent ==
    /\ state = InProgress => current_player = PlayerOfMove(turn_count)
    /\ state = WaitingForPieRuleChoice => current_player = "Blue"

\* C12: players move alternately: every accepted click places the colour of
\* current_player on one Empty cell, a non-winning one then hands the move
\* to the other colour, a balancing decision hands it to nobody, and so move
\* 1 is Red's, move 2 Blue's, move 3 Red's, and in InProgress
\* current_player is the player who moves next.
C12_PlayersAlternate ==
    /\ []NextMoverIsCurrent
    /\ [][/\ IsAcceptedClick =>
               /\ \E h \in DOMAIN cells :
                      /\ cells[h] = "Empty"
                      /\ cells' = [cells EXCEPT ![h] = current_player]
               /\ state'.tag # "Finished" =>
                      (current_player' \in Players /\ current_player' # current_player)
          /\ IsDecision => current_player' = current_player]_vars

\* C12 witness: Red moved, Blue moved without winning, and Red is to move.
C12_Witness ==
    /\ WasAcceptedClick
    /\ state = InProgress
    /\ turn_count = 2
    /\ current_player = "Red"
    /\ Owned(cells, "Red") # {}
    /\ Owned(cells, "Blue") # {}

\* C12 witness after a swap: both stones are Blue, and Red is to move.
C12_WitnessSwapped ==
    /\ WasAcceptedClick
    /\ state = InProgress
    /\ turn_count = 2
    /\ current_player = "Red"
    /\ Cardinality(Owned(cells, "Blue")) = 2

\* The players for whom Game::check_win_condition holds on the game's board.
GameWinners == { p \in Players : check_win_condition(cells, size, p) }

\* C13: no win is missed and none is declared early: in every reachable
\* state of a game some player satisfies the Game's win condition iff state
\* is Finished, and in Finished{winner: P} only P satisfies it; so after the
\* first move, whose win check is skipped, and after either pie-rule
\* decision nobody satisfies it.
C13_WinIffFinished ==
    /\ GameWinners # {} <=> state.tag = "Finished"
    /\ state.tag = "Finished" => GameWinners = { state.winner }

\* C13 witness: the game is Finished and its winner alone has won.
C13_Witness ==
    /\ state.tag = "Finished"
    /\ GameWinners = { state.winner }
    /\ turn_count = 2

\* C13 witness for the skipped check: the first move stands on Red's start
\* line, the choice is awaited, and nobody has won.
C13_WitnessFirstMove ==
    /\ state = WaitingForPieRuleChoice
    /\ \E h \in Owned(cells, "Red") : game_start_condition(size, "Red", h)
    /\ GameWinners = {}

\* C13 witness for the swap: the swapped stone stands on Blue's start line
\* and nobody has won.
C13_WitnessSwapped ==
    /\ last_call = [op |-> "handle_pie_rule_decision", at |-> "WaitingForPieRuleChoice",
                    target |-> "none"]
    /\ \E h \in Owned(cells, "Blue") : game_start_condition(size, "Blue", h)
    /\ GameWinners = {}

Abs(x) == IF x >= 0 THEN x ELSE -x

\* The hexagonal region of size n, and the square of coordinates around it.
Region(n) == { h \in { Hex(q, r) : q \in (-n)..n, r \in (-n)..n } : Abs(h.q + h.r) <= n }
Around(n) == { Hex(q, r) : q \in (-n - 1)..(n + 1), r \in (-n - 1)..(n + 1) }

\* b is the all-Empty board on the region of size n.
IsRegionBoard(b, n) ==
    /\ DOMAIN b = Region(n)
    /\ Cardinality(DOMAIN b) = 3 * n * n + 3 * n + 1
    /\ \A h \in DOMAIN b : get_cell(b, h) = <<"Empty">>
    /\ \A h \in Around(n) \ Region(n) : get_cell(b, h) = <<>>

\* C14: for every size n >= 0, Board::new(n) holds exactly the coordinates
\* with |q| <= n, |r| <= n and |q + r| <= n, that is 3n^2 + 3n + 1 cells,
\* each of them Empty, and get_cell finds nothing at any other coordinate.
\* Stated of the board a construction has just returned, and of
\* Board::new(n) for the sizes up to MaxRegion.
C14_NewBoardIsRegion ==
    last_call.op = "new" =>
        /\ IsRegionBoard(cells, size)
        /\ \A n \in 0..MaxRegion : IsRegionBoard(Board_new(n), n)

\* C14 witness: a board of the largest size has just been built; it has
\* more than one cell and its square has corners outside the region.
C14_Witness ==
    /\ last_call.op = "new"
    /\ size = MaxSize
    /\ Cardinality(DOMAIN cells) = 3 * size * size + 3 * size + 1
    /\ Cardinality(DOMAIN cells) > 1
    /\ get_cell(cells, Hex(size, size)) = <<>>

\* C15 as stated: the key set of a board never changes: after any sequence
\* of set_cell and place_piece calls with arbitrary coordinates the keys of
\* Board.cells are the keys Board::new(size) generated.
C15_KeySetNeverChanges == DOMAIN cells = NewKeys(size)

\* C15 amended: no key is ever removed, and the key set changes in no call
\* but a set_cell whose coordinate is not a key of the board: place_piece
\* with arbitrary coordinates and set_cell on a key leave it as it was.
C15_KeySetChangesOnlyBySetCellOutside ==
    /\ [](NewKeys(size) \subseteq DOMAIN cells)
    /\ [][DOMAIN cells' # DOMAIN cells =>
              /\ last_call'.op = "set_cell"
              /\ last_call'.target = "out_of_bounds"]_vars

\* C15 witness: place_piece was called with a coordinate outside a board
\* that holds a piece, and the board has the keys Board::new generated.
C15_Witness ==
    /\ last_call = [op |-> "place_piece", at |-> "none", target |-> "out_of_bounds"]
    /\ Stones(cells) # {}
    /\ DOMAIN cells = NewKeys(size)

\* C15 witness for set_cell on a key: an occupied cell has been overwritten.
C15_WitnessOverwrite ==
    /\ last_call = [op |-> "set_cell", at |-> "none", target |-> "occupied"]
    /\ DOMAIN cells = NewKeys(size)

\* The offset table of the hex grid, as <<dq, dr>>.
Offsets == << <<1, 0>>, <<0, 1>>, <<-1, 1>>, <<-1, 0>>, <<0, -1>>, <<1, -1>> >>

\* get_neighbors(c) is the list of six distinct hexes c + Offsets[i], none
\* of them c, and c is a neighbour of each of them.
NeighborsOk(c) ==
    LET nbrs == get_neighbors(c)
    IN  /\ Len(nbrs) = 6
        /\ \A i \in 1..6 : nbrs[i] = Hex(c.q + Offsets[i][1], c.r + Offsets[i][2])
        /\ \A i, j \in 1..6 : i # j => nbrs[i] # nbrs[j]
        /\ \A i \in 1..6 : nbrs[i] # c
        /\ \A i \in 1..6 : \E j \in 1..6 : get_neighbors(nbrs[i])[j] = c

\* C16: for every hex c, get_neighbors(c) returns exactly 6 pairwise
\* distinct coordinates in the order of the offsets (+1,0),(0,+1),(-1,+1),
\* (-1,0),(0,-1),(+1,-1), none equal to c, and adjacency is symmetric.
\* Stated of every cell and every outside coordinate of a board as built,
\* and of every cell that holds a piece afterwards.
C16_SixSymmetricNeighbors ==
    /\ Stones(cells) = {} => \A c \in (DOMAIN cells) \cup BoardHexes : NeighborsOk(c)
    /\ \A c \in Stones(cells) : NeighborsOk(c)

\* C16 witness: a piece stands on the rim of the board, where some of its
\* six neighbours are cells of the board and the others are not.
C16_Witness ==
    \E c \in Stones(cells) :
        /\ NeighborsOk(c)
        /\ \E i \in 1..6 : get_neighbors(c)[i] \in DOMAIN cells
        /\ \E i \in 1..6 : get_neighbors(c)[i] \notin DOMAIN cells

\* What place_piece(hex, piece) returns and leaves on board c is right:
\* Ok exactly when the move is valid, and then hex alone is rewritten, to
\* piece; otherwise an error, and c itself.
PlacePieceOk(c, hex, piece) ==
    LET result == place_piece_result(c, hex)
        after  == place_piece_cells(c, hex, piece)
    IN  /\ result = "Ok" <=> is_valid_move(c, hex)
        /\ is_valid_move(c, hex) <=> (hex \in DOMAIN c /\ c[hex] = "Empty")
        /\ result = "Ok" =>
               /\ DOMAIN after = DOMAIN c
               /\ after[hex] = piece
               /\ \A h \in DOMAIN c \ {hex} : after[h] = c[h]
        /\ result # "Ok" =>
               /\ result \in {"Cell is not empty", "Hex is out of bounds"}
               /\ result = "Cell is not empty" <=> hex \in DOMAIN c
               /\ after = c

\* C17: Board::place_piece(hex, colour) succeeds exactly when
\* is_valid_move(hex) holds, that is when hex is a key whose cell is Empty;
\* on success that cell alone changes, to colour; on failure (occupied cell
\* or hex out of bounds) an error is returned and no cell changes. Stated
\* of every coordinate and colour on every board place_piece has produced.
C17_PlacePieceIffValid ==
    \A hex \in BoardHexes, piece \in CellState : PlacePieceOk(cells, hex, piece)

\* C17 witness: pieces have been placed, so that on this board a placement
\* can succeed, fail on an occupied cell and fail outside the board.
C17_Witness ==
    /\ \E hex \in BoardHexes : place_piece_result(cells, hex) = "Ok"
    /\ \E hex \in BoardHexes :
           /\ place_piece_result(cells, hex) = "Cell is not empty"
           /\ place_piece_cells(cells, hex, "Red") = cells
           /\ cells[hex] = "Blue"
    /\ \E hex \in BoardHexes : place_piece_result(cells, hex) = "Hex is out of bounds"

\* The state transitions a game may take, as pairs of tags.
AllowedTransitions ==
    { <<"InProgress", "InProgress">>,
      <<"InProgress", "WaitingForPieRuleChoice">>,
      <<"WaitingForPieRuleChoice", "InProgress">>,
      <<"InProgress", "Finished">> }

\* C18: the state changes only along InProgress -> InProgress, InProgress ->
\* WaitingForPieRuleChoice, WaitingForPieRuleChoice -> InProgress and
\* InProgress -> Finished; a call that leaves the state as it is apart,
\* there is no step WaitingForPieRuleChoice -> Finished. The game enters
\* WaitingForPieRuleChoice at most once: only in the step that counts the
\* first move, and the counter never goes back. Finished is entered only by
\* handle_click.
C18_AllowedTransitions ==
    [][/\ state' # state => <<state.tag, state'.tag>> \in AllowedTransitions
       /\ ~(state = WaitingForPieRuleChoice /\ state'.tag = "Finished")
       /\ (state # WaitingForPieRuleChoice /\ state' = WaitingForPieRuleChoice) =>
              (turn_count = 0 /\ turn_count' = 1)
       /\ turn_count' >= turn_count
       /\ (state.tag # "Finished" /\ state'.tag = "Finished") => IsAcceptedClick]_vars

\* C18 witness: the game went InProgress -> WaitingForPieRuleChoice ->
\* InProgress -> Finished: the second move, an accepted click, ended it.
C18_Witness ==
    /\ state.tag = "Finished"
    /\ WasAcceptedClick
    /\ turn_count = 2
    /\ Len(first_player_move) = 1

\* C18 witness for InProgress -> InProgress: a second move did not end the
\* game and did not ask for the choice again.
C18_WitnessOrdinaryMove ==
    /\ state = InProgress
    /\ WasAcceptedClick
    /\ turn_count = 2
    /\ Owned(cells, "Red") # {}

\* C19: calls made in the wrong state are no-ops: handle_click in state
\* WaitingForPieRuleChoice and handle_pie_rule_decision in state InProgress
\* leave every cell, current_player, turn_count, state and
\* first_player_move as they were; a late swap recolours nothing.
C19_WrongStateCallsAreNoOps ==
    [][(\/ IsClick /\ state = WaitingForPieRuleChoice
        \/ IsDecision /\ state = InProgress) => UNCHANGED game_vars]_vars

\* C19 witness: after the first move was kept, a decision arrived while
\* play had resumed; the first-move cell still has the first player's
\* colour, which a swap by the current player would have changed.
C19_Witness ==
    /\ last_call = [op |-> "handle_pie_rule_decision", at |-> "InProgress",
                    target |-> "none"]
    /\ state = InProgress
    /\ turn_count = 1
    /\ Len(first_player_move) = 1
    /\ cells[first_player_move[1]] = "Red"
    /\ current_player = "Blue"

\* C19 witness for the click: a click on an Empty cell arrived while the
\* choice was awaited, and only the first move is on the board.
C19_WitnessClick ==
    /\ last_call = [op |-> "handle_click", at |-> "WaitingForPieRuleChoice",
                    target |-> "empty"]
    /\ state = WaitingForPieRuleChoice
    /\ Cardinality(Stones(cells)) = 1
    /\ turn_count = 1

\* A finished search for player p on board c that put the cells of pushed
\* on its queue, in that order, and took taken cells from it: nothing was
\* pushed twice, every pushed cell is a cell of the board owned by p, and
\* no more cells were taken than p owns.
SearchOk(c, p, pushed, taken) ==
    /\ \A i, j \in 1..Len(pushed) : i # j => pushed[i] # pushed[j]
    /\ \A i \in 1..Len(pushed) : pushed[i] \in DOMAIN c /\ c[pushed[i]] = p
    /\ taken <= Len(pushed)
    /\ taken <= Cardinality(Owned(c, p))

\* C20: the connectivity search terminates on every board, and in one run
\* of Board::check_win or Game::check_win_condition each cell is put on the
\* queue at most once and only if the searched player owns it, so the queue
\* never holds a duplicate, a cell of the other player, an Empty cell or a
\* coordinate outside the board, and at most as many cells are dequeued as
\* the player owns.
C20_SearchVisitsOwnedCellsOnce ==
    \A p \in Players :
        LET b == board_run(cells, size, p)
            g == game_run(cells, size, p)
        IN  /\ b.found \in BOOLEAN
            /\ SearchOk(cells, p, b.queue, b.head)
            /\ g.found \in BOOLEAN
            /\ SearchOk(cells, p, g.pushed, g.pops)

\* C20 witness: after a swap Blue played a second cell next to the first,
\* and the Game's search for Blue took both cells, the second one pushed as
\* a neighbour of the first, and did not reach the far line.
C20_Witness ==
    LET g == game_run(cells, size, "Blue")
    IN  /\ WasAcceptedClick
        /\ state = InProgress
        /\ ~g.found /\ g.pops = 2 /\ Len(g.pushed) = 2
        /\ ~game_start_condition(size, "Blue", g.pushed[2])

\* C20 witness for Board::check_win: its search for Blue took two cells,
\* the second one pushed as a neighbour of the first.
C20_WitnessBoard ==
    LET b == board_run(cells, size, "Blue")
    IN  /\ ~b.found /\ b.head = 2 /\ Len(b.queue) = 2
        /\ ~board_start_condition(size, "Blue", b.queue[2])

\* C20 witness for the other player's cells: Blue's cell on its start line
\* has a Red neighbour, which the Game's search did not push.
C20_WitnessOtherColour ==
    LET g == game_run(cells, size, "Blue")
    IN  /\ WasAcceptedClick
        /\ state = InProgress
        /\ g.pops = 1 /\ Len(g.pushed) = 1
        /\ \E d \in Owned(cells, "Red") : Adjacent(g.pushed[1], d)

\* The sequences in which an iteration may yield the elements of S.
SeedOrders(S) ==
    { s \in [1..Cardinality(S) -> S] : \A i, j \in 1..Cardinality(S) : i # j => s[i] # s[j] }

\* Orders in which the six neighbours may be explored: the order of the
\* code started at any of the six, forwards or backwards.
NeighborOrders ==
    { [i \in 1..6 |-> ((k + i - 2) % 6) + 1] : k \in 1..6 }
    \cup { [i \in 1..6 |-> ((k - i + 6) % 6) + 1] : k \in 1..6 }

\* C21: the result of the win check does not depend on enumeration order:
\* on a fixed board, for either player, Board::check_win and
\* Game::check_win_condition return the same boolean whatever the order in
\* which the hash map yields the start cells and whatever the order in which
\* the neighbours are explored.
C21_WinCheckIgnoresOrder ==
    \A p \in Players :
        LET board_result == check_win(cells, size, p)
            game_result  == check_win_condition(cells, size, p)
        IN  /\ \A seeds \in SeedOrders(board_seeds(cells, size, p)) :
                   \A order \in NeighborOrders :
                       board_run_in(cells, size, p, seeds, order).found = board_result
            /\ \A seeds \in SeedOrders(game_seeds(cells, size, p)) :
                   \A order \in NeighborOrders :
                       game_run_in(cells, size, p, seeds, order).found = game_result

\* C21 witness: Blue has two cells on the start line of the Game's search,
\* which may be yielded in two orders, and the search fails in all orders.
C21_Witness ==
    /\ Cardinality(game_seeds(cells, size, "Blue")) = 2
    /\ Cardinality(SeedOrders(game_seeds(cells, size, "Blue"))) = 2
    /\ WasAcceptedClick
    /\ ~check_win_condition(cells, size, "Blue")

\* C21 witness for a search that succeeds: Blue's second cell is a neighbour
\* of its start cell on the far line, found whichever neighbour is explored
\* first.
C21_WitnessWon ==
    /\ state = Finished("Blue")
    /\ Cardinality(game_seeds(cells, size, "Blue")) = 1
    /\ \A order \in NeighborOrders :
           LET g == game_run_in(cells, size, "Blue",
                                IterOrder(game_seeds(cells, size, "Blue")), order)
           IN  g.found /\ g.pops = 2

\* C22: in every state of a game turn_count is the number of cells that are
\* not Empty: an accepted move claims one Empty cell and counts one, a
\* pie-rule decision changes neither number; hence turn_count never
\* exceeds the number of cells of the board.
C22_TurnCountIsStoneCount ==
    /\ turn_count = Cardinality(Stones(cells))
    /\ turn_count <= Cardinality(DOMAIN cells)

\* C22 witness: after a swap and a second move the counter reads 2 and two
\* cells are taken.
C22_Witness ==
    /\ WasAcceptedClick
    /\ turn_count = 2
    /\ Cardinality(Stones(cells)) = 2
    /\ cells[first_player_move[1]] = "Blue"

\* C22 witness for the decisions: the first move has been swapped, one
\* cell is taken and the counter reads 1.
C22_WitnessDecision ==
    /\ last_call.op = "handle_pie_rule_decision"
    /\ state = InProgress
    /\ turn_count = 1
    /\ Cardinality(Stones(cells)) = 1
    /\ cells[first_player_move[1]] = "Blue"

\* The step is the accepted decision that hands the first-move cell h to
\* the deciding player.
IsSwapOf(h) ==
    /\ IsDecision
    /\ state = WaitingForPieRuleChoice
    /\ first_player_move = <<h>>
    /\ cells'[h] = current_player

\* C23: ownership is stable under the Game's operations: a Red or Blue cell
\* never becomes Empty again and never changes owner, except the first-move
\* cell when handle_pie_rule_decision swaps it in WaitingForPieRuleChoice;
\* first_player_move is set once, by the first move, and never changes.
C23_OwnershipIsStable ==
    [][/\ \A h \in DOMAIN cells :
              cells[h] # "Empty" =>
                  /\ h \in DOMAIN cells'
                  /\ cells'[h] # "Empty"
                  /\ cells'[h] # cells[h] => IsSwapOf(h)
       /\ first_player_move # <<>> => first_player_move' = first_player_move
       /\ first_player_move' # first_player_move =>
              /\ IsAcceptedClick
              /\ turn_count = 0
              /\ Len(first_player_move') = 1
              /\ cells[first_player_move'[1]] = "Empty"
              /\ cells'[first_player_move'[1]] = current_player]_vars

\* C23 witness: the first move was swapped and then a click on an occupied
\* cell arrived: the first-move cell is still Blue and first_player_move
\* still names it.
C23_Witness ==
    /\ last_call = [op |-> "handle_click", at |-> "InProgress", target |-> "occupied"]
    /\ turn_count = 1
    /\ Len(first_player_move) = 1
    /\ cells[first_player_move[1]] = "Blue"

\* C23 witness for a second move: both cells are owned and
\* first_player_move names the Red one, which was kept.
C23_WitnessSecondMove ==
    /\ WasAcceptedClick
    /\ turn_count = 2
    /\ Len(first_player_move) = 1
    /\ cells[first_player_move[1]] = "Red"
    /\ Cardinality(Owned(cells, "Blue")) = 1

\* C24: the two players are never both connected: on every board built by
\* Board::new(size), whatever Empty, Red or Blue its cells hold,
\* Board::check_win(Red) and Board::check_win(Blue) are not both true, and
\* check_win(Empty) is false.
C24_NeverBothConnected ==
    /\ ~(check_win(cells, size, "Red") /\ check_win(cells, size, "Blue"))
    /\ ~check_win(cells, size, "Empty")

\* C24 witness: on a board without Empty cells Red joins its sides, and
\* Blue, with a cell on each of its own sides, does not.
C24_Witness ==
    /\ size >= 1
    /\ Stones(cells) = DOMAIN cells
    /\ check_win(cells, size, "Red")
    /\ ~check_win(cells, size, "Blue")
    /\ \E h \in Owned(cells, "Blue") : board_start_condition(size, "Blue", h)
    /\ \E h \in Owned(cells, "Blue") : board_win_condition(size, "Blue", h)

\* C24 witness for a board without Empty cells on which nobody is connected.
C24_WitnessNobody ==
    /\ Stones(cells) = DOMAIN cells
    /\ ~check_win(cells, size, "Red")
    /\ ~check_win(cells, size, "Blue")

\* C25: a game cannot end without a winner: in every state of a game in
\* which no cell of the board is Empty the state is Finished; as long as
\* the state is InProgress there is a legal move.
C25_FullBoardIsFinished ==
    /\ Stones(cells) = DOMAIN cells => state.tag = "Finished"
    /\ state = InProgress => \E h \in DOMAIN cells : is_valid_move(cells, h)

\* Red cells minus Blue cells on the board.
RedLead == Cardinality(Owned(cells, "Red")) - Cardinality(Owned(cells, "Blue"))

\* The first move has been handed to the second player.
Swapped == first_player_move # <<>> /\ cells[first_player_move[1]] = "Blue"

\* C26 as stated: in every state of a game, also after a pie-rule swap, the
\* number of Red cells and the number of Blue cells differ by at most 1.
C26_StoneCountsBalanced == RedLead \in {-1, 0, 1}

\* C26 amended: the numbers of Red and Blue cells differ by at most 2:
\* without a swap Red has as many cells as Blue after an even number of
\* moves and one more after an odd number; after a swap Blue has one cell
\* more than Red after an odd number of moves and two more after an even
\* number.
C26_StoneCountsFollowSwap ==
    /\ RedLead \in {-2, -1, 0, 1}
    /\ ~Swapped => RedLead = (IF turn_count % 2 = 0 THEN 0 ELSE 1)
    /\ Swapped => RedLead = (IF turn_count % 2 = 0 THEN -2 ELSE -1)

\* C26 witness: after a swap Blue has moved: two Blue cells, no Red cell.
C26_Witness ==
    /\ Swapped
    /\ WasAcceptedClick
    /\ Cardinality(Owned(cells, "Blue")) = 2
    /\ Owned(cells, "Red") = {}

\* C26 witness without a swap: one Red cell and one Blue cell after two moves.
C26_WitnessKept ==
    /\ ~Swapped
    /\ WasAcceptedClick
    /\ turn_count = 2
    /\ RedLead = 0

====
